---- MODULE Spec2Model ----
(***************************************************************************)
(* biaplotter: the Scatter and Histogram2D artists of                      *)
(* src/biaplotter/artists.py as a state machine.                           *)
(*                                                                         *)
(* Numbers.  Every float of the program (a colour index, a bin count, a    *)
(* cell of the overlay statistic) is held in hundredths, so that the log   *)
(* floor 0.01 is the integer 1 and the tag 1 is the integer 100.  A cell   *)
(* of a grid is a fraction [n, d] of hundredths; d = 0 is NaN.  In an      *)
(* index array NaN is the value NaN below.  Point coordinates are small    *)
(* integers; bin edges are kept exactly, as numerators over a common       *)
(* denominator (np.linspace is exact on the coordinates used here).        *)
(***************************************************************************)
EXTENDS Integers, Sequences, FiniteSets

VARIABLES
    kind,         \* which class the artist is: "Scatter" or "Histogram2D"
    constructed,  \* __init__ has returned normally
    artist,       \* the fields of the artist object
    op,           \* the last call made on the artist, and the value passed
    raised,       \* the exception that call propagated to its caller, or "none"
    emitted,      \* the signals that call emitted, in order, with their payloads
    warned,       \* the warnings that call issued through warnings.warn
    returned      \* what the call returned, for the calls that return a value

vars == <<kind, constructed, artist, op, raised, emitted, warned, returned>>

\* ---------------------------------------------------------------- bounds
MaxN == 2
MaxBins == 3
MaxIndex == 1

\* The points a caller may put in a data set: with two of them an axis can
\* be degenerate (one value) or not, and a point can sit on the last edge.
Points == {<<0, 0>>, <<1, 0>>, <<2, 2>>}

Hundredths(n) == 100 * n

\* The float NaN inside an index array.
NaN == Hundredths(Hundredths(1))

\* min_value_for_log = 0.01, in hundredths.
MinValueForLog == 1

\* ---------------------------------------------------------------- values
Range(s) == {s[i] : i \in DOMAIN s}

SeqsUpTo(S, n) == UNION {[1..k -> S] : k \in 1..n}

NoneValue == [tag |-> "None", dtype |-> "none", v |-> <<>>]

Scalar(s) == [tag |-> "scalar", dtype |-> "int", v |-> <<s>>]

Force(f) == IF f = f THEN f ELSE f

Array(dtype, v) == [tag |-> "array", dtype |-> dtype, v |-> Force(v)]

\* np.isscalar(indices)
isscalar(x) == x.tag = "scalar"

\* len(x) of an array
len(x) == Len(x.v)

NoData == [tag |-> "None", pts |-> <<>>]

DataArray(pts) == [tag |-> "array", pts |-> pts]

\* The (N, 2) arrays a caller assigns to `data`, N >= 1.
DataSets == {DataArray(p) : p \in SeqsUpTo(Points, MaxN)}

\* What a caller may hand to the `data` setter besides a data set.
EmptyData == {NoData, DataArray(<<>>)}

\* The arrays a caller assigns to `color_indices`: integer tags, or floats
\* with NaN among them, of every length from 1 to MaxN whatever len(data) is.
IndexArrays ==
    {Array("int", v) : v \in SeqsUpTo({0, Hundredths(1)}, MaxN)}
        \cup {Array("float", v) : v \in SeqsUpTo({NaN, Hundredths(1)}, MaxN)}

IndexScalars == {Scalar(0), Scalar(Hundredths(1))}

\* np.full(n, s)
full(n, s) == Array(s.dtype, [i \in 1..n |-> s.v[1]])

\* np.resize(a, n): a repeated cyclically to n entries; zeros when a is empty.
resize(a, n) ==
    Array(a.dtype,
          [i \in 1..n |-> IF len(a) = 0 THEN 0 ELSE a.v[((i - 1) % len(a)) + 1]])

\* color_indices[size:] = 0
ZeroFrom(a, size) == Array(a.dtype, [i \in 1..len(a) |-> IF i > size THEN 0 ELSE a.v[i]])

\* Storing the float x into an array of the given dtype (an int array truncates).
Cast(dtype, x) == IF dtype = "int" THEN Hundredths(x \div 100) ELSE x

Numbers(a) == {a.v[i] : i \in {j \in 1..len(a) : a.v[j] # NaN}}

SetMin(S) == CHOOSE x \in S : \A y \in S : x <= y

SetMax(S) == CHOOSE x \in S : \A y \in S : y <= x

\* np.nanmin / np.nanmax of an index array: NaN when every entry is NaN.
nanmin(a) == IF Numbers(a) = {} THEN NaN ELSE SetMin(Numbers(a))

nanmax(a) == IF Numbers(a) = {} THEN NaN ELSE SetMax(Numbers(a))

\* ------------------------------------------------------------- fractions
QNaN == [n |-> 0, d |-> 0]

Q(x) == IF x = NaN THEN QNaN ELSE [n |-> x, d |-> 1]

isnan(q) == q.d = 0

QLess(a, b) == ~isnan(a) /\ ~isnan(b) /\ a.n * b.d < b.n * a.d

QLeq(a, b) == ~isnan(a) /\ ~isnan(b) /\ a.n * b.d <= b.n * a.d

QEq(a, b) == ~isnan(a) /\ ~isnan(b) /\ a.n * b.d = b.n * a.d

\* ------------------------------------------------------------------ grids
Cells(shape) == (0..(shape[1] - 1)) \X (0..(shape[2] - 1))

Grid(shape, f) == [shape |-> shape, cell |-> Force(f)]

NoGrid == Grid(<<0, 0>>, [c \in {} |-> QNaN])

Defined(g) == {c \in Cells(g.shape) : ~isnan(g.cell[c])}

QMinOf(S) == CHOOSE x \in S : \A y \in S : QLeq(x, y)

QMaxOf(S) == CHOOSE x \in S : \A y \in S : QLeq(y, x)

\* np.nanmin / np.nanmax of a grid.
grid_nanmin(g) == IF Defined(g) = {} THEN QNaN ELSE QMinOf({g.cell[c] : c \in Defined(g)})

grid_nanmax(g) == IF Defined(g) = {} THEN QNaN ELSE QMaxOf({g.cell[c] : c \in Defined(g)})

\* ---------------------------------------------------------------- binning
Column(pts, k) == Force([i \in 1..Len(pts) |-> pts[i][k]])

\* np.histogram2d's edges without the widening of an empty range: an axis
\* whose values are all equal gets bins + 1 equal edges.
histogram_bin_edges_unwidened(xs, bins) ==
    LET lo == SetMin(Range(xs))
        hi == SetMax(Range(xs))
    IN  [den |-> bins,
         num |-> Force([i \in 1..(bins + 1) |-> lo * bins + (i - 1) * (hi - lo)])]

\* The bin edges np.histogram2d gives one axis: bins + 1 evenly spaced edges
\* from the least to the greatest coordinate, the range widened by 0.5 on
\* both sides when they are equal.  Edge i is num[i] / den.
histogram_bin_edges(xs, bins) ==
    LET lo == SetMin(Range(xs))
        hi == SetMax(Range(xs))
        first2 == IF lo = hi THEN 2 * lo - 1 ELSE 2 * lo
        last2 == IF lo = hi THEN 2 * hi + 1 ELSE 2 * hi
    IN  [den |-> 2 * bins,
         num |-> Force([i \in 1..(bins + 1) |-> first2 * bins + (i - 1) * (last2 - first2)])]

NoEdges == [den |-> 1, num |-> <<>>]

\* x compared with edge i of edges
AtLeastEdge(x, edges, i) == edges.num[i] <= x * edges.den

BelowEdge(x, edges, i) == x * edges.den < edges.num[i]

\* np.searchsorted(edges, x, side='right'), which np.digitize(x, edges,
\* right=False) is for increasing edges: the number of edges <= x.
digitize(x, edges) == Cardinality({i \in DOMAIN edges.num : AtLeastEdge(x, edges, i)})

\* ndarray.clip(lo, hi)
clip(k, lo, hi) == IF k < lo THEN lo ELSE IF k > hi THEN hi ELSE k

\* The bin np.histogramdd counts x in: searchsorted on the right, a sample on
\* the last edge moved into the last bin, the two outlier bins dropped.
histogramdd_bin(x, edges) ==
    LET n == digitize(x, edges)
        on_edge == x * edges.den = edges.num[Len(edges.num)]
    IN  (IF on_edge THEN n - 1 ELSE n) - 1

\* np.histogram2d(value[:, 0], value[:, 1], bins): (counts, x_edges, y_edges)
histogram2d(pts, bins) ==
    LET x_edges == histogram_bin_edges(Column(pts, 1), bins)
        y_edges == histogram_bin_edges(Column(pts, 2), bins)
        count(c) == Cardinality({i \in 1..Len(pts) :
                        /\ histogramdd_bin(pts[i][1], x_edges) = c[1]
                        /\ histogramdd_bin(pts[i][2], y_edges) = c[2]})
    IN  [set |-> TRUE,
         counts |-> Grid(<<bins, bins>>,
                         [c \in Cells(<<bins, bins>>) |-> Q(Hundredths(count(c)))]),
         x_edges |-> x_edges,
         y_edges |-> y_edges]

NoHistogram == [set |-> FALSE, counts |-> NoGrid, x_edges |-> NoEdges, y_edges |-> NoEdges]

\* (np.digitize(data[:, k], edges, right=False) - 1).clip(0, len(edges) - 2)
bin_indices(xs, edges) ==
    Force([i \in 1..Len(xs) |-> clip(digitize(xs[i], edges) - 1, 0, Len(edges.num) - 2)])

\* ------------------------------------------------------- overlay statistic
RECURSIVE SumOver(_, _)
SumOver(v, K) ==
    IF K = {} THEN 0
    ELSE LET k == CHOOSE i \in K : TRUE IN v[k] + SumOver(v, K \ {k})

\* The k-th smallest of the values v[i], i in K.
KthSmallest(v, K, k) ==
    CHOOSE x \in {v[i] : i \in K} :
        /\ Cardinality({i \in K : v[i] < x}) < k
        /\ k <= Cardinality({i \in K : v[i] <= x})

HasNaN(v, K) == \E i \in K : v[i] = NaN

\* sums[x, y] / counts[x, y]
mean(v, K) == IF HasNaN(v, K) THEN QNaN ELSE [n |-> SumOver(v, K), d |-> Cardinality(K)]

\* np.median(feats)
median(v, K) ==
    LET m == Cardinality(K)
    IN  IF HasNaN(v, K) THEN QNaN
        ELSE IF m % 2 = 1 THEN [n |-> KthSmallest(v, K, (m + 1) \div 2), d |-> 1]
        ELSE [n |-> KthSmallest(v, K, m \div 2) + KthSmallest(v, K, (m \div 2) + 1),
              d |-> 2]

\* The sum kept only where it is not zero (no sums_flags): a cell whose
\* values cancel is left NaN.
sum_where_nonzero(v, K) ==
    IF HasNaN(v, K) \/ SumOver(v, K) = 0 THEN QNaN ELSE [n |-> SumOver(v, K), d |-> 1]

\* sums[x, y] where sums_flags[x, y]
sum(v, K) == IF HasNaN(v, K) THEN QNaN ELSE [n |-> SumOver(v, K), d |-> 1]

Statistics == {"mean", "median", "sum"}

Min2(a, b) == IF a <= b THEN a ELSE b

\* The points zip(x_indices, y_indices, features) pairs with a feature and
\* that carry the bin c.
Members(x_indices, y_indices, features, c) ==
    {k \in 1..Min2(Min2(Len(x_indices), Len(y_indices)), Len(features)) :
        x_indices[k] = c[1] /\ y_indices[k] = c[2]}

\* Histogram2D._calculate_statistic_histogram; features is the sequence of
\* values.  A cell no zipped point carries stays NaN.
_calculate_statistic_histogram(x_indices, y_indices, features, statistic) ==
    LET height == SetMax(Range(x_indices)) + 1
        width == SetMax(Range(y_indices)) + 1
        value(c) ==
            LET K == Members(x_indices, y_indices, features, c)
            IN  IF K = {} THEN QNaN
                ELSE IF statistic = "mean" THEN mean(features, K)
                ELSE IF statistic = "median" THEN median(features, K)
                ELSE IF statistic = "sum" THEN sum(features, K)
                ELSE QNaN
    IN  Grid(<<height, width>>, [c \in Cells(<<height, width>>) |-> value(c)])

\* ------------------------------------------------------------- colormaps
\* The colormaps a caller passes; BiaColormap (biaplotter/colormap.py) wraps
\* one and says whether it is categorical.
CategoricalNames == {"cat10_mod", "cat10_mod_first_transparent"}

\* The number of colours of a colormap (its N).
ColormapN(name) == IF name \in CategoricalNames THEN 10 ELSE 256

BiaColormap(name) ==
    [cmap |-> name, categorical |-> name \in CategoricalNames, N |-> ColormapN(name)]

Colormaps == {"cat10_mod", "magma"}

\* self._normalization_methods
_normalization_methods == {"linear", "log", "symlog", "centered"}

\* ------------------------------------------------------------ one call
\* A call in progress: the artist's fields, the exception raised so far, the
\* signals emitted so far and the warnings issued so far.  Once an exception
\* is raised the rest of the call is skipped.
Begin(a) == [a |-> a, ex |-> "none", em |-> <<>>, wn |-> {}]

Raise(m, e) == [m EXCEPT !.ex = e]

Ok(m) == m.ex = "none"

\* The three warnings of artists.py, by what they say.
IntegersWarning == "Color indices must be integers for categorical colormap"

LinearWarning == "Categorical colormap detected. Setting color normalization method to linear"

LogWarning == "Log normalization applied to color indices"

\* warnings.warn(w)
Warn(m, w) == [m EXCEPT !.wn = @ \cup {w}]

\* if condition: warnings.warn(w)
WarnIf(m, condition, w) == IF condition THEN Warn(m, w) ELSE m

\* What an observer connected to a signal finds when it reads the artist
\* from its slot: whether there is one colour index per point, and (for
\* Histogram2D) whether the histogram is the one computed from the data and
\* the bins the artist holds.
AtEmission(a) ==
    [lengths_agree |-> /\ a.color_indices.tag = "array"
                       /\ len(a.color_indices) = Len(a.data.pts),
     histogram_of_data |->
         IF "histogram" \in DOMAIN a
         THEN a.histogram.set /\ a.histogram_of = [data |-> a.data, bins |-> a.bins]
         ELSE TRUE]

\* signal.emit(payload): the slots run before emit returns.
Emit(m, signal, payload) ==
    [m EXCEPT !.em = Append(@, [signal |-> signal, payload |-> payload,
                                seen |-> AtEmission(m.a)])]

\* A norm object: the class chosen and the bounds handed to it.
Norm(method, vmin, vmax) == [method |-> method, vmin |-> vmin, vmax |-> vmax]

\* Whether norm(values) raises ValueError inside to_rgba: LogNorm and
\* SymLogNorm refuse vmin > vmax and bounds whose transform is not finite.
NormRaises(norm) ==
    \/ norm.method = "log" /\ (isnan(norm.vmin) \/ isnan(norm.vmax)
                                 \/ QLess(norm.vmax, norm.vmin))
    \/ norm.method = "symlog" /\ (isnan(norm.vmin) \/ isnan(norm.vmax))

\* ---------------------------------------------------------- Histogram2D
\* A setter is written as the stages its code runs through, each stage an
\* operator that takes the call as the stage before left it.
\*
\* A matplotlib image (or collection) the artist holds: whether the
\* attribute is not None, whether the object is on the axes, its visible flag.
NoImage == [exists |-> FALSE, on_axes |-> FALSE, visible |-> FALSE]

\* ax.imshow(...) / ax.scatter(...): a new object on the axes, visible.
NewImage == [exists |-> TRUE, on_axes |-> TRUE, visible |-> TRUE]

\* image.remove()
Removed(image) == [image EXCEPT !.on_axes = FALSE]

NoRgba == [shape |-> <<0, 0, 0>>, transparent |-> {}]

MethodOf(a, is_overlay) ==
    IF is_overlay THEN a.overlay_color_normalization_method
    ELSE a.histogram_color_normalization_method

WithMethod(a, is_overlay, method) ==
    IF is_overlay THEN [a EXCEPT !.overlay_color_normalization_method = method]
    ELSE [a EXCEPT !.histogram_color_normalization_method = method]

\* Histogram2D._handle_norm_method_for_categorical_colormap: a warning when
\* dtype is not int, the method forced to linear with a warning, and the
\* norm Normalize(0, colormap.N).
_handle_norm_method_for_categorical_colormap(m, is_overlay, colormap, dtype, histogram_data) ==
    [m |-> IF MethodOf(m.a, is_overlay) # "linear"
           THEN Warn(WarnIf([m EXCEPT !.a = WithMethod(@, is_overlay, "linear")],
                            dtype # "int", IntegersWarning),
                     LinearWarning)
           ELSE WarnIf(m, dtype # "int", IntegersWarning),
     norm |-> Norm("linear", Q(0), Q(Hundredths(colormap.N))),
     data |-> histogram_data]

\* histogram_data[histogram_data <= 0] = min_value
ClampGrid(g, min_value) ==
    Grid(g.shape,
         [c \in Cells(g.shape) |->
            IF QLeq(g.cell[c], Q(0)) THEN min_value ELSE g.cell[c]])

\* min_value = np.nanmin(histogram_data), or min_value_for_log if that is <= 0
LogFloor(lowest) == IF QLeq(lowest, Q(0)) THEN Q(MinValueForLog) ELSE lowest

\* Histogram2D._handle_norm_method_for_continuous_colormap: the norm and the
\* grid, which 'log' changes in place with a warning.  CenteredNorm is given
\* a centre only.
_handle_norm_method_for_continuous_colormap(m, is_overlay, histogram_data) ==
    IF MethodOf(m.a, is_overlay) = "log"
    THEN [m |-> Warn(m, LogWarning),
          norm |-> Norm("log", LogFloor(grid_nanmin(histogram_data)),
                        grid_nanmax(histogram_data)),
          data |-> ClampGrid(histogram_data, LogFloor(grid_nanmin(histogram_data)))]
    ELSE IF MethodOf(m.a, is_overlay) = "centered"
    THEN [m |-> m, norm |-> Norm("centered", QNaN, QNaN), data |-> histogram_data]
    ELSE [m |-> m,
          norm |-> Norm(MethodOf(m.a, is_overlay), grid_nanmin(histogram_data),
                        grid_nanmax(histogram_data)),
          data |-> histogram_data]

\* Histogram2D._select_norm_class (with _get_normalization_class, whose
\* dictionary lookup raises KeyError on an unknown method name): the call
\* afterwards, the norm and the grid as the handler left it.  dtype is the
\* one of color_indices for the overlay and float for the counts.
_select_norm_class(m, is_overlay, histogram_data) ==
    IF MethodOf(m.a, is_overlay) \notin _normalization_methods
    THEN [m |-> Raise(m, "KeyError"), norm |-> Norm("linear", QNaN, QNaN),
          data |-> histogram_data]
    ELSE IF is_overlay /\ m.a.overlay_colormap.categorical
    THEN _handle_norm_method_for_categorical_colormap(
             m, is_overlay, m.a.overlay_colormap, m.a.color_indices.dtype, histogram_data)
    ELSE IF ~is_overlay /\ m.a.histogram_colormap.categorical
    THEN _handle_norm_method_for_categorical_colormap(
             m, is_overlay, m.a.histogram_colormap, "float", histogram_data)
    ELSE _handle_norm_method_for_continuous_colormap(m, is_overlay, histogram_data)

\* Whether ax.pcolormesh(xcenters, ycenters, histogram_data.T,
\* shading='nearest') accepts the grid: its transpose must have one row per
\* y centre and one column per x centre, else matplotlib raises TypeError.
PcolormeshAccepts(histogram_data, x_edges, y_edges) ==
    /\ histogram_data.shape[1] = Len(x_edges.num) - 1
    /\ histogram_data.shape[2] = Len(y_edges.num) - 1

\* Lines 959-973 of _histogram2D_array_to_rgba, s being what
\* _select_norm_class gave: the RGBA image has the y bins as rows and its
\* NaN cells transparent.
pcolormesh_to_rgba(s, x_edges, y_edges) ==
    IF ~Ok(s.m) THEN [m |-> s.m, data |-> s.data, rgba |-> NoRgba]
    ELSE IF ~PcolormeshAccepts(s.data, x_edges, y_edges)
    THEN [m |-> Raise(s.m, "TypeError"), data |-> s.data, rgba |-> NoRgba]
    ELSE IF NormRaises(s.norm)
    THEN [m |-> Raise(s.m, "ValueError"), data |-> s.data, rgba |-> NoRgba]
    ELSE [m |-> s.m, data |-> s.data,
          rgba |-> [shape |-> <<s.data.shape[2], s.data.shape[1], 4>>,
                    transparent |-> {<<c[2], c[1]>> :
                                        c \in Cells(s.data.shape) \ Defined(s.data)}]]

\* Histogram2D._histogram2D_array_to_rgba: the call afterwards, the grid as
\* the call left it (it is changed in place) and the RGBA image.
_histogram2D_array_to_rgba(m, histogram_data, x_edges, y_edges, is_overlay) ==
    pcolormesh_to_rgba(_select_norm_class(m, is_overlay, histogram_data), x_edges, y_edges)

\* Lines 518-523 of the color_indices setter: the overlay image is shown and
\* the signal emitted, unless the conversion r raised.  statistic_histogram
\* keeps the grid the setter computed, as the conversion left it.
Histogram2D_overlay_shown(r) ==
    IF ~Ok(r.m) THEN [r.m EXCEPT !.a.statistic_histogram = r.data]
    ELSE Emit([r.m EXCEPT !.a.statistic_histogram = r.data,
                          !.a.overlay_histogram_rgba = r.rgba,
                          !.a.overlay_histogram_image = NewImage],
              "color_indices_changed", r.m.a.color_indices)

\* Lines 514-523 of the color_indices setter: an overlay is drawn unless
\* every cell of the statistic grid is NaN.
Histogram2D_overlay_drawn(m, statistic_histogram) ==
    IF Defined(statistic_histogram) = {}
    THEN Emit([m EXCEPT !.a.statistic_histogram = statistic_histogram],
              "color_indices_changed", m.a.color_indices)
    ELSE Histogram2D_overlay_shown(
             _histogram2D_array_to_rgba(
                 [m EXCEPT !.a.statistic_histogram = statistic_histogram],
                 statistic_histogram, m.a.histogram.x_edges, m.a.histogram.y_edges, TRUE))

\* Lines 504-513 of the color_indices setter: the bins of the points and the
\* median grid.  Reading self._histogram before any data raises
\* AttributeError; zipping None indices raises TypeError.
Histogram2D_overlay(m) ==
    IF ~m.a.histogram.set THEN Raise(m, "AttributeError")
    ELSE IF m.a.color_indices.tag = "None" THEN Raise(m, "TypeError")
    ELSE Histogram2D_overlay_drawn(
             m,
             _calculate_statistic_histogram(
                 bin_indices(Column(m.a.data.pts, 1), m.a.histogram.x_edges),
                 bin_indices(Column(m.a.data.pts, 2), m.a.histogram.y_edges),
                 m.a.color_indices.v, "median"))

\* Histogram2D.color_indices (setter): a scalar is broadcast over the data
\* (len(None) raises TypeError), the indices are stored and the old overlay
\* removed before anything is computed.
Histogram2D_color_indices(m, value) ==
    IF isscalar(value) /\ m.a.data.tag = "None" THEN Raise(m, "TypeError")
    ELSE Histogram2D_overlay(
             [m EXCEPT !.a.color_indices =
                           IF isscalar(value) THEN full(Len(m.a.data.pts), value)
                           ELSE value,
                       !.a.overlay_histogram_image = IF @.exists THEN NoImage ELSE @])

\* Lines 438-447 of the data setter (179-188 of Scatter's): the indices the
\* setter hands to the color_indices setter once the new data is stored.
ResizedIndices(a) ==
    IF Len(a.data.pts) > len(a.color_indices)
    THEN ZeroFrom(resize(a.color_indices, Len(a.data.pts)), len(a.color_indices))
    ELSE resize(a.color_indices, Len(a.data.pts))

\* Lines 438-448 of the data setter: the default tag 0 when there are no
\* indices, else the resized ones (len() of a scalar raises TypeError).
Histogram2D_data_resized(m) ==
    IF m.a.color_indices.tag = "scalar" THEN Raise(m, "TypeError")
    ELSE Histogram2D_color_indices(
             m, IF m.a.color_indices.tag = "None" THEN Scalar(0) ELSE ResizedIndices(m.a))

\* Lines 435-436 of the data setter: the image is shown unless the
\* conversion r raised; the counts are as the conversion left them.
Histogram2D_data_drawn(r) ==
    IF ~Ok(r.m) THEN [r.m EXCEPT !.a.histogram.counts = r.data]
    ELSE Histogram2D_data_resized(
             [r.m EXCEPT !.a.histogram.counts = r.data,
                         !.a.histogram_rgba = r.rgba,
                         !.a.histogram_image = NewImage])

\* Lines 430-434 of the data setter: the histogram h is stored and converted.
\* histogram_of keeps which data and bins it was computed from.
Histogram2D_data_counted(m, h) ==
    Histogram2D_data_drawn(
        _histogram2D_array_to_rgba(
            [m EXCEPT !.a.histogram = h,
                      !.a.histogram_of = [data |-> m.a.data, bins |-> m.a.bins]],
            h.counts, h.x_edges, h.y_edges, FALSE))

\* The data setter without its two early returns: whatever is assigned is
\* stored and announced.
Histogram2D_data_unguarded(m, value) ==
    Emit([m EXCEPT !.a.data = value], "data_changed", value)

\* Histogram2D.data (setter): nothing on None or an empty array; else the
\* data is stored, the signal emitted, the old image removed and the
\* histogram computed.
Histogram2D_data(m, value) ==
    IF value.tag = "None" THEN m
    ELSE IF Len(value.pts) = 0 THEN m
    ELSE Histogram2D_data_counted(
             Emit([m EXCEPT !.a.data = value,
                            !.a.histogram_image = IF @.exists THEN Removed(@) ELSE @],
                  "data_changed", value),
             histogram2d(value.pts, m.a.bins))

\* Histogram2D.bins (setter)
Histogram2D_bins(m, value) == Histogram2D_data([m EXCEPT !.a.bins = value], m.a.data)

\* Histogram2D.overlay_colormap (setter)
Histogram2D_overlay_colormap(m, value) ==
    Histogram2D_color_indices([m EXCEPT !.a.overlay_colormap = BiaColormap(value)],
                              m.a.color_indices)

\* Histogram2D.histogram_colormap (setter)
Histogram2D_histogram_colormap(m, value) ==
    Histogram2D_data([m EXCEPT !.a.histogram_colormap = BiaColormap(value)], m.a.data)

\* Histogram2D.histogram_color_normalization_method (setter)
Histogram2D_histogram_color_normalization_method(m, value) ==
    Histogram2D_data([m EXCEPT !.a.histogram_color_normalization_method = value],
                     m.a.data)

\* Histogram2D.overlay_color_normalization_method (setter)
Histogram2D_overlay_color_normalization_method(m, value) ==
    Histogram2D_color_indices(
        [m EXCEPT !.a.overlay_color_normalization_method = value], m.a.color_indices)

\* Histogram2D.visible (setter): the flag is stored and handed to the base
\* image, and to the overlay image when there is a base image.
Histogram2D_visible(m, value) ==
    [m EXCEPT !.a.visible = value,
              !.a.histogram_image.visible =
                  IF m.a.histogram_image.exists THEN value ELSE @,
              !.a.overlay_histogram_image.visible =
                  IF m.a.histogram_image.exists /\ m.a.overlay_histogram_image.exists
                  THEN value ELSE @]

\* Histogram2D.overlay_visible (setter)
Histogram2D_overlay_visible(m, value) ==
    [m EXCEPT !.a.overlay_visible = value,
              !.a.overlay_histogram_image.visible =
                  IF m.a.overlay_histogram_image.exists THEN value ELSE @]

\* Histogram2D.overlay_opacity (setter)
Histogram2D_overlay_opacity(m, value) ==
    Histogram2D_data([m EXCEPT !.a.overlay_opacity = value], m.a.data)

\* Histogram2D.histogram_interpolation (setter)
Histogram2D_histogram_interpolation(m, value) ==
    Histogram2D_data([m EXCEPT !.a.histogram_interpolation = value], m.a.data)

\* Histogram2D.overlay_interpolation (setter)
Histogram2D_overlay_interpolation(m, value) ==
    Histogram2D_data([m EXCEPT !.a.overlay_interpolation = value], m.a.data)

\* Histogram2D.__init__ up to the assignment of data (lines 378-394).
Histogram2D_fields(data, overlay_colormap, color_indices, bins, histogram_colormap) ==
    [data |-> data,
     visible |-> TRUE,
     overlay_colormap |-> BiaColormap(overlay_colormap),
     color_indices |-> color_indices,
     histogram_image |-> NoImage,
     bins |-> bins,
     histogram_colormap |-> BiaColormap(histogram_colormap),
     histogram_interpolation |-> "nearest",
     overlay_interpolation |-> "nearest",
     overlay_opacity |-> Hundredths(1),
     overlay_visible |-> TRUE,
     overlay_histogram_image |-> NoImage,
     histogram_color_normalization_method |-> "linear",
     overlay_color_normalization_method |-> "linear",
     histogram |-> NoHistogram,
     histogram_of |-> [data |-> NoData, bins |-> 0],
     histogram_rgba |-> NoRgba,
     overlay_histogram_rgba |-> NoRgba,
     statistic_histogram |-> NoGrid]

\* Histogram2D.__init__
Histogram2D_init(data, overlay_colormap, color_indices, bins, histogram_colormap) ==
    Histogram2D_data(
        Begin(Histogram2D_fields(data, overlay_colormap, color_indices, bins,
                                 histogram_colormap)),
        data)

\* --------------------------------------------------------------- Scatter
\* self._scatter: the PathCollection, with the number of its offsets and of
\* its face colours.
\* sm.to_rgba(v) for ScalarMappable(norm, cmap): the colours of the values
\* v, by the colormap, the norm and the values they are computed from.
to_rgba(cmap, norm, v) == [cmap |-> cmap, norm |-> norm, v |-> v]

\* The entry of an N-colour lookup table that cmap(norm(v)) reads under a
\* linear norm: norm(v) = (v - vmin) / (vmax - vmin), or 0 when vmin = vmax;
\* the entry is int(norm(v) * N), with N itself and everything beyond the
\* table taken at its ends.  NaN has the colour for bad values, here -1.
LutIndex(N, norm, v) ==
    IF v = NaN \/ isnan(norm.vmin) \/ isnan(norm.vmax) THEN -1
    ELSE IF QEq(norm.vmin, norm.vmax) THEN 0
    ELSE clip((N * (v * norm.vmin.d - norm.vmin.n) * norm.vmax.d)
                  \div (norm.vmax.n * norm.vmin.d - norm.vmin.n * norm.vmax.d),
              0, N - 1)

\* The single colour a new PathCollection has.
DefaultColor == to_rgba("none", Norm("linear", QNaN, QNaN), <<0>>)

NoScatter == [exists |-> FALSE, on_axes |-> FALSE, visible |-> FALSE,
              offsets |-> 0, facecolors |-> DefaultColor]

\* ax.scatter(value[:, 0], value[:, 1], s=self._size)
NewScatter(n) == [exists |-> TRUE, on_axes |-> TRUE, visible |-> TRUE,
                  offsets |-> n, facecolors |-> DefaultColor]

\* indices[indices <= 0] = min_value
ClampArray(a, min_value) ==
    Array(a.dtype,
          [i \in 1..len(a) |-> IF a.v[i] <= 0 THEN Cast(a.dtype, min_value) ELSE a.v[i]])

\* min_value = np.nanmin(indices), or 0.01 if that is <= 0
ArrayLogFloor(lowest) == IF lowest <= 0 THEN MinValueForLog ELSE lowest

\* The setter's norm without the categorical branch: every colormap is
\* normalized linearly over the range of the indices.
Scatter_norm_over_range(a, indices) ==
    [method |-> "linear",
     norm |-> Norm("linear", Q(nanmin(indices)), Q(nanmax(indices))),
     indices |-> indices,
     wn |-> {}]

\* Lines 242-271 of Scatter's color_indices setter: the method afterwards, the
\* norm, the indices, which 'log' changes in place, and the warnings issued.
Scatter_norm(a, indices) ==
    IF a.overlay_colormap.categorical
    THEN [method |-> "linear",
          norm |-> Norm("linear", Q(0), Q(Hundredths(a.overlay_colormap.N))),
          indices |-> indices,
          wn |-> (IF indices.dtype # "int" THEN {IntegersWarning} ELSE {})
                     \cup (IF a.color_normalization_method # "linear"
                           THEN {LinearWarning} ELSE {})]
    ELSE IF a.color_normalization_method = "log"
    THEN [method |-> "log",
          norm |-> Norm("log", Q(ArrayLogFloor(nanmin(indices))), Q(nanmax(indices))),
          indices |-> ClampArray(indices, ArrayLogFloor(nanmin(indices))),
          wn |-> {LogWarning}]
    ELSE IF a.color_normalization_method = "centered"
    THEN [method |-> "centered", norm |-> Norm("centered", QNaN, QNaN),
          indices |-> indices, wn |-> {}]
    ELSE [method |-> a.color_normalization_method,
          norm |-> Norm(a.color_normalization_method, Q(nanmin(indices)),
                        Q(nanmax(indices))),
          indices |-> indices, wn |-> {}]

\* Lines 273-281 of Scatter's color_indices setter, r being the norm chosen:
\* the method and the clamped indices are already stored when to_rgba raises.
Scatter_colored(m, r) ==
    IF NormRaises(r.norm)
    THEN Raise([m EXCEPT !.a.color_normalization_method = r.method,
                         !.a.color_indices = r.indices,
                         !.wn = @ \cup r.wn],
               "ValueError")
    ELSE Emit([m EXCEPT !.a.color_normalization_method = r.method,
                        !.a.color_indices = r.indices,
                        !.a.scatter.facecolors =
                            to_rgba(m.a.overlay_colormap.cmap, r.norm, r.indices.v),
                        !.wn = @ \cup r.wn],
              "color_indices_changed", r.indices)

\* Lines 240-281 of Scatter's color_indices setter, the indices stored:
\* without indices or without a scatter only the signal is emitted.
Scatter_recolored(m) ==
    IF m.a.color_indices.tag = "None" \/ ~m.a.scatter.exists
    THEN Emit(m, "color_indices_changed", m.a.color_indices)
    ELSE IF m.a.color_normalization_method \notin _normalization_methods
    THEN Raise(m, "KeyError")
    ELSE Scatter_colored(m, Scatter_norm(m.a, m.a.color_indices))

\* Scatter.color_indices (setter)
Scatter_color_indices(m, value) ==
    IF isscalar(value) /\ m.a.data.tag = "None" THEN Raise(m, "TypeError")
    ELSE Scatter_recolored(
             [m EXCEPT !.a.color_indices =
                           IF isscalar(value) THEN full(Len(m.a.data.pts), value)
                           ELSE value])

\* Scatter.size (setter)
Scatter_size(m, value) ==
    [m EXCEPT !.a.size_set = TRUE, !.a.size = value]

\* Line 189 of the data setter: self.size = 50, unless the call has raised.
Scatter_data_sized(m) == IF Ok(m) THEN Scatter_size(m, 50) ELSE m

\* Lines 178-189 of the data setter: the default tag 0 when there are no
\* indices, else the resized ones.
Scatter_data_resized(m) ==
    IF ~Ok(m) THEN m
    ELSE IF m.a.color_indices.tag = "scalar" THEN Raise(m, "TypeError")
    ELSE Scatter_data_sized(
             Scatter_color_indices(
                 m, IF m.a.color_indices.tag = "None" THEN Scalar(0)
                    ELSE ResizedIndices(m.a)))

\* Lines 172-189 of the data setter: the first data creates the scatter
\* (reading self._size, which __init__ sets only after its own assignment of
\* data) and sets the tag 0; later data move the offsets.
Scatter_data_stored(m) ==
    IF ~m.a.scatter.exists /\ ~m.a.size_set THEN Raise(m, "AttributeError")
    ELSE Scatter_data_resized(
             IF m.a.scatter.exists
             THEN [m EXCEPT !.a.scatter.offsets = Len(m.a.data.pts)]
             ELSE Scatter_color_indices(
                      [m EXCEPT !.a.scatter = NewScatter(Len(m.a.data.pts))], Scalar(0)))

\* Scatter.data (setter)
Scatter_data(m, value) ==
    IF value.tag = "None" THEN m
    ELSE IF Len(value.pts) = 0 THEN m
    ELSE Scatter_data_stored(Emit([m EXCEPT !.a.data = value], "data_changed", value))

\* Scatter.overlay_colormap (setter)
Scatter_overlay_colormap(m, value) ==
    Scatter_color_indices([m EXCEPT !.a.overlay_colormap = BiaColormap(value)],
                          m.a.color_indices)

\* Scatter.color_normalization_method (setter)
Scatter_color_normalization_method(m, value) ==
    Scatter_color_indices([m EXCEPT !.a.color_normalization_method = value],
                          m.a.color_indices)

\* Scatter.visible (setter)
Scatter_visible(m, value) ==
    [m EXCEPT !.a.visible = value,
              !.a.scatter.visible = IF m.a.scatter.exists THEN value ELSE @]

\* Scatter.__init__ up to the assignment of data (lines 134-139).
Scatter_fields(data, overlay_colormap, color_indices) ==
    [data |-> data,
     visible |-> TRUE,
     overlay_colormap |-> BiaColormap(overlay_colormap),
     color_indices |-> color_indices,
     scatter |-> NoScatter,
     color_normalization_method |-> "linear",
     size_set |-> FALSE,
     size |-> 0]

\* Line 141 of __init__: self._size = 50, reached when the assignment of
\* data has not raised.
Scatter_constructed(m) == IF Ok(m) THEN Scatter_size(m, 50) ELSE m

\* Scatter.__init__
Scatter_init(data, overlay_colormap, color_indices) ==
    Scatter_constructed(
        Scatter_data(Begin(Scatter_fields(data, overlay_colormap, color_indices)), data))

\* ------------------------------------------------------------- queries
\* The cells of a grid in the order np.argwhere lists them (row-major).
CellAt(shape, k) == <<k \div shape[2], k % shape[2]>>

\* np.where(...)[0] for one bin: the points inside its half-open intervals,
\* in increasing order.
RECURSIVE PointsInBin(_, _, _, _)
PointsInBin(a, c, i, acc) ==
    IF i > Len(a.data.pts) THEN acc
    ELSE LET x == a.data.pts[i][1]
             y == a.data.pts[i][2]
             inside == /\ AtLeastEdge(x, a.histogram.x_edges, c[1] + 1)
                       /\ BelowEdge(x, a.histogram.x_edges, c[1] + 2)
                       /\ AtLeastEdge(y, a.histogram.y_edges, c[2] + 1)
                       /\ BelowEdge(y, a.histogram.y_edges, c[2] + 2)
         IN  PointsInBin(a, c, i + 1, IF inside THEN Append(acc, i - 1) ELSE acc)

RECURSIVE PatchesFrom(_, _, _, _)
PatchesFrom(a, threshold, k, indices) ==
    LET shape == a.histogram.counts.shape
        c == CellAt(shape, k)
    IN  IF k >= shape[1] * shape[2] THEN indices
        ELSE IF QLess(Q(Hundredths(threshold)), a.histogram.counts.cell[c])
        THEN PatchesFrom(a, threshold, k + 1, indices \o PointsInBin(a, c, 1, <<>>))
        ELSE PatchesFrom(a, threshold, k + 1, indices)

\* Histogram2D.indices_in_patches_above_threshold: the list of point indices
\* (from 0), bin after bin.
indices_in_patches_above_threshold(a, threshold) == PatchesFrom(a, threshold, 0, <<>>)

\* ------------------------------------------------------- the state machine
NoReturn == [done |-> FALSE, value |-> <<>>]

Return(x) == [done |-> TRUE, value |-> x]

\* The constructor's arguments: data and color_indices are optional, the
\* colormaps are the defaults (cat10_mod for Scatter, the variant with a
\* transparent first colour for the overlay and magma for Histogram2D).
Init ==
    /\ kind \in {"Scatter", "Histogram2D"}
    /\ \E data \in {NoData} \cup DataSets,
          color_indices \in {NoneValue} \cup IndexScalars \cup IndexArrays,
          bins \in 1..MaxBins :
        \E m \in {IF kind = "Scatter"
                 THEN Scatter_init(data, "cat10_mod", color_indices)
                 ELSE Histogram2D_init(data, "cat10_mod_first_transparent",
                                       color_indices, bins, "magma")} :
            /\ artist = m.a
            /\ constructed = Ok(m)
            /\ raised = m.ex
            /\ emitted = m.em
            /\ warned = m.wn
    /\ op = [name |-> "__init__", arg |-> "args"]
    /\ returned = NoReturn

\* A call on the constructed artist, with the value the caller passed, that
\* ends as m.
Call(name, arg, m) ==
    /\ constructed
    /\ artist' = m.a
    /\ op' = [name |-> name, arg |-> arg]
    /\ raised' = m.ex
    /\ emitted' = m.em
    /\ warned' = m.wn
    /\ returned' = NoReturn
    /\ UNCHANGED <<kind, constructed>>

\* artist.data = value
SetData(value) ==
    Call("data", value,
         IF kind = "Scatter" THEN Scatter_data(Begin(artist), value)
         ELSE Histogram2D_data(Begin(artist), value))

\* artist.color_indices = value
SetColorIndices(value) ==
    Call("color_indices", value,
         IF kind = "Scatter" THEN Scatter_color_indices(Begin(artist), value)
         ELSE Histogram2D_color_indices(Begin(artist), value))

\* artist.overlay_colormap = value
SetOverlayColormap(value) ==
    Call("overlay_colormap", value,
         IF kind = "Scatter" THEN Scatter_overlay_colormap(Begin(artist), value)
         ELSE Histogram2D_overlay_colormap(Begin(artist), value))

\* scatter.color_normalization_method = value
SetColorNormalizationMethod(value) ==
    /\ kind = "Scatter"
    /\ Call("color_normalization_method", value,
            Scatter_color_normalization_method(Begin(artist), value))

\* histogram.overlay_color_normalization_method = value
SetOverlayColorNormalizationMethod(value) ==
    /\ kind = "Histogram2D"
    /\ Call("overlay_color_normalization_method", value,
            Histogram2D_overlay_color_normalization_method(Begin(artist), value))

\* histogram.histogram_color_normalization_method = value
SetHistogramColorNormalizationMethod(value) ==
    /\ kind = "Histogram2D"
    /\ Call("histogram_color_normalization_method", value,
            Histogram2D_histogram_color_normalization_method(Begin(artist), value))

\* histogram.histogram_colormap = value
SetHistogramColormap(value) ==
    /\ kind = "Histogram2D"
    /\ Call("histogram_colormap", value,
            Histogram2D_histogram_colormap(Begin(artist), value))

\* artist.visible = value
SetVisible(value) ==
    Call("visible", value,
         IF kind = "Scatter" THEN Scatter_visible(Begin(artist), value)
         ELSE Histogram2D_visible(Begin(artist), value))

\* histogram.overlay_visible = value
SetOverlayVisible(value) ==
    /\ kind = "Histogram2D"
    /\ Call("overlay_visible", value, Histogram2D_overlay_visible(Begin(artist), value))

\* histogram.overlay_opacity = value
SetOverlayOpacity(value) ==
    /\ kind = "Histogram2D"
    /\ Call("overlay_opacity", value, Histogram2D_overlay_opacity(Begin(artist), value))

\* histogram.histogram_interpolation = value
SetHistogramInterpolation(value) ==
    /\ kind = "Histogram2D"
    /\ Call("histogram_interpolation", value,
            Histogram2D_histogram_interpolation(Begin(artist), value))

\* histogram.overlay_interpolation = value
SetOverlayInterpolation(value) ==
    /\ kind = "Histogram2D"
    /\ Call("overlay_interpolation", value,
            Histogram2D_overlay_interpolation(Begin(artist), value))

\* histogram.bins = value
SetBins(value) ==
    /\ kind = "Histogram2D"
    /\ Call("bins", value, Histogram2D_bins(Begin(artist), value))

\* histogram.indices_in_patches_above_threshold(threshold); without a
\* histogram the read of self._histogram raises AttributeError.
IndicesInPatchesAboveThreshold(threshold) ==
    /\ kind = "Histogram2D"
    /\ constructed
    /\ op' = [name |-> "indices_in_patches_above_threshold", arg |-> threshold]
    /\ raised' = IF artist.histogram.set THEN "none" ELSE "AttributeError"
    /\ emitted' = <<>>
    /\ warned' = {}
    /\ returned' = IF artist.histogram.set
                   THEN Return(indices_in_patches_above_threshold(artist, threshold))
                   ELSE NoReturn
    /\ UNCHANGED <<kind, constructed, artist>>

\* The thresholds a caller asks for: below every count, and one a bin
\* exceeds only with two points in it.
Thresholds == {-1, 1}

\* The calls of one artist.  Scatter takes every setter it has; Histogram2D
\* keeps the colormaps and normalization methods it was constructed with and
\* takes the calls that change its points, its tags and its bins.
Next ==
    \/ \E value \in EmptyData \cup DataSets : SetData(value)
    \/ \E value \in IndexScalars \cup IndexArrays : SetColorIndices(value)
    \/ \E value \in Colormaps : kind = "Scatter" /\ SetOverlayColormap(value)
    \/ \E value \in _normalization_methods : SetColorNormalizationMethod(value)
    \/ \E value \in 1..MaxBins : SetBins(value)
    \/ \E threshold \in Thresholds : IndicesInPatchesAboveThreshold(threshold)

Spec == Init /\ [][Next]_vars

\* ------------------------------------------------- showing and hiding
\* An artist that is shown and hidden between assignments: constructed with
\* the default colormaps, two bins and no colour indices, with or without
\* data, it takes data of one or two points, the tag 0 or one tag per
\* point, one or two bins, either overlay colormap and the three flags.
VisibleData == {DataArray(<<<<0, 0>>>>), DataArray(<<<<0, 0>>, <<2, 2>>>>)}

VisibleIndices ==
    {Scalar(0), Array("int", <<Hundredths(1)>>), Array("int", <<0, Hundredths(1)>>)}

Opacities == {50, Hundredths(1)}

InitVisible ==
    /\ kind \in {"Scatter", "Histogram2D"}
    /\ \E data \in {NoData} \cup VisibleData :
        \E m \in {IF kind = "Scatter"
                 THEN Scatter_init(data, "cat10_mod", NoneValue)
                 ELSE Histogram2D_init(data, "cat10_mod_first_transparent",
                                       NoneValue, 2, "magma")} :
            /\ artist = m.a
            /\ constructed = Ok(m)
            /\ raised = m.ex
            /\ emitted = m.em
            /\ warned = m.wn
    /\ op = [name |-> "__init__", arg |-> "args"]
    /\ returned = NoReturn

NextVisible ==
    \/ \E value \in VisibleData : SetData(value)
    \/ \E value \in VisibleIndices : SetColorIndices(value)
    \/ \E value \in Colormaps : SetOverlayColormap(value)
    \/ \E value \in 1..2 : SetBins(value)
    \/ \E value \in BOOLEAN : SetVisible(value)
    \/ \E value \in BOOLEAN : SetOverlayVisible(value)
    \/ \E value \in Opacities : SetOverlayOpacity(value)

SpecVisible == InitVisible /\ [][NextVisible]_vars

\* ------------------------------------------------------------ redrawing
\* A Histogram2D constructed with data whose appearance is changed: it takes
\* data of one or two points, one or two bins, two opacities, two
\* interpolations for the histogram and for the overlay, both histogram
\* colormaps and the methods 'linear' and 'log'.
Interpolations == {"nearest", "bilinear"}

InitRedraw ==
    /\ kind = "Histogram2D"
    /\ \E data \in VisibleData :
        \E m \in {Histogram2D_init(data, "cat10_mod_first_transparent",
                                   NoneValue, 2, "magma")} :
            /\ artist = m.a
            /\ constructed = Ok(m)
            /\ raised = m.ex
            /\ emitted = m.em
            /\ warned = m.wn
    /\ op = [name |-> "__init__", arg |-> "args"]
    /\ returned = NoReturn

NextRedraw ==
    \/ \E value \in VisibleData : SetData(value)
    \/ \E value \in 1..2 : SetBins(value)
    \/ \E value \in Opacities : SetOverlayOpacity(value)
    \/ \E value \in Interpolations : SetHistogramInterpolation(value)
    \/ \E value \in Interpolations : SetOverlayInterpolation(value)
    \/ \E value \in Colormaps : SetHistogramColormap(value)
    \/ \E value \in {"linear", "log"} : SetHistogramColorNormalizationMethod(value)

SpecRedraw == InitRedraw /\ [][NextRedraw]_vars

\* ------------------------------------------- colormaps and normalization
\* An artist whose colormaps and normalization methods are assigned in any
\* order: constructed with the default colormaps, two bins and no colour
\* indices, with or without two points on the diagonal (so that two of the
\* four bins are empty), it takes those points, the tag 0, integer tags,
\* float tags with a NaN, both colormaps, and as a method name 'linear',
\* 'log' or a name that _normalization_methods does not have.
ColourData == {DataArray(<<<<0, 0>>, <<2, 2>>>>)}

ColourIndices ==
    {Scalar(0), Array("int", <<0, Hundredths(1)>>), Array("float", <<NaN, Hundredths(1)>>)}

MethodNames == {"linear", "log", "cubic"}

InitColours ==
    /\ kind \in {"Scatter", "Histogram2D"}
    /\ \E data \in {NoData} \cup ColourData :
        \E m \in {IF kind = "Scatter"
                 THEN Scatter_init(data, "cat10_mod", NoneValue)
                 ELSE Histogram2D_init(data, "cat10_mod_first_transparent",
                                       NoneValue, 2, "magma")} :
            /\ artist = m.a
            /\ constructed = Ok(m)
            /\ raised = m.ex
            /\ emitted = m.em
            /\ warned = m.wn
    /\ op = [name |-> "__init__", arg |-> "args"]
    /\ returned = NoReturn

NextColours ==
    \/ \E value \in ColourData : SetData(value)
    \/ \E value \in ColourIndices : SetColorIndices(value)
    \/ \E value \in Colormaps : SetOverlayColormap(value)
    \/ \E value \in Colormaps : SetHistogramColormap(value)
    \/ \E value \in MethodNames : SetColorNormalizationMethod(value)
    \/ \E value \in MethodNames : SetOverlayColorNormalizationMethod(value)
    \/ \E value \in MethodNames : SetHistogramColorNormalizationMethod(value)

SpecColours == InitColours /\ [][NextColours]_vars

\* ------------------------------------- the overlay statistic on its own
\* _calculate_statistic_histogram as a function of its arguments: bin
\* indices from 0 to MaxIndex for up to MaxN points, one value per point
\* (5, -5 or NaN) and one of the three statistics.  `artist` holds the
\* arguments, `returned` the grid.
FeatureValues == {Hundredths(-5), Hundredths(5), NaN}

InitStat ==
    /\ kind = "function"
    /\ constructed = FALSE
    /\ \E n \in 1..MaxN :
        \E x_indices \in [1..n -> 0..MaxIndex], y_indices \in [1..n -> 0..MaxIndex],
           features \in [1..n -> FeatureValues], statistic \in Statistics :
            artist = [x_indices |-> x_indices, y_indices |-> y_indices,
                      features |-> features, statistic |-> statistic]
    /\ op = [name |-> "none", arg |-> "none"]
    /\ raised = "none"
    /\ emitted = <<>>
    /\ warned = {}
    /\ returned = NoReturn

CalculateStatisticHistogram ==
    /\ kind = "function"
    /\ ~returned.done
    /\ op' = [name |-> "_calculate_statistic_histogram", arg |-> artist.statistic]
    /\ returned' = Return(_calculate_statistic_histogram(
                              artist.x_indices, artist.y_indices, artist.features,
                              artist.statistic))
    /\ UNCHANGED <<kind, constructed, artist, raised, emitted, warned>>

NextStat == CalculateStatisticHistogram

SpecStat == InitStat /\ [][NextStat]_vars

\* --------------------------------------------------------- CanvasWidget
\* plotter.py.  The widget's fields: the artists registered under their
\* ArtistType, the active artist (an artist is named by the type it is
\* registered under, "None" when there is none), the selectors under their
\* SelectorType with the point set each holds, and which data_changed
\* signals are connected to which selectors.
ArtistTypes == {"HISTOGRAM2D", "SCATTER"}

SelectorTypes == {"LASSO", "ELLIPSE", "RECTANGLE"}

\* The keyword parameters of Scatter.__init__ and of Histogram2D.__init__.
ScatterParameters == {"ax", "data", "overlay_colormap", "color_indices"}

Histogram2DParameters == ScatterParameters \cup {"bins", "histogram_colormap"}

\* Lines 111-148 of CanvasWidget.__init__: the axes, the toolbar with its
\* three buttons, no active artist and no artists.
CanvasWidget_fields ==
    [buttons |-> SelectorTypes,
     active_artist |-> "None",
     artists |-> [t \in {} |-> NoData],
     selectors |-> [t \in {} |-> NoData],
     connected |-> {}]

\* artist_instance.visible = visible
WithVisible(artist_type, instance, visible) ==
    IF artist_type = "SCATTER" THEN Scatter_visible(Begin(instance), visible).a
    ELSE Histogram2D_visible(Begin(instance), visible).a

\* CanvasWidget.add_artist: a registered type raises ValueError before
\* anything is stored; else the instance is stored and its visible set.
CanvasWidget_add_artist(m, artist_type, instance, visible) ==
    IF ~Ok(m) THEN m
    ELSE IF artist_type \in DOMAIN m.a.artists THEN Raise(m, "ValueError")
    ELSE [m EXCEPT !.a.artists =
              [t \in DOMAIN @ \cup {artist_type} |->
                  IF t = artist_type THEN WithVisible(artist_type, instance, visible)
                  ELSE @[t]]]

\* CanvasWidget.active_artist (setter): the value is stored, every registered
\* artist is made visible if it is the value and invisible if not, and
\* artist_changed is emitted with the type the value is registered under;
\* for a value that is not registered that type is an unbound local.
CanvasWidget_active_artist(m, value) ==
    IF ~Ok(m) THEN m
    ELSE IF value \notin DOMAIN m.a.artists
    THEN Raise([m EXCEPT !.a.active_artist = value,
                         !.a.artists = [t \in DOMAIN @ |-> WithVisible(t, @[t], FALSE)]],
               "UnboundLocalError")
    ELSE [m EXCEPT !.a.active_artist = value,
                   !.a.artists = [t \in DOMAIN @ |-> WithVisible(t, @[t], t = value)],
                   !.em = Append(@, [signal |-> "artist_changed", payload |-> value])]

\* Lines 154-168 of CanvasWidget.__init__: the three selectors, each with
\* no point set yet, and data_changed of every artist connected to
\* update_data of every selector.
CanvasWidget_selectors(m) ==
    IF ~Ok(m) THEN m
    ELSE [m EXCEPT !.a.selectors = [t \in SelectorTypes |-> NoData],
                   !.a.connected = (DOMAIN m.a.artists) \X SelectorTypes]

\* Histogram2D(ax=self.axes) registered (line 151), its parameters at their
\* defaults (bins, 20 in the source, at the largest the model counts with).
CanvasWidget_histogram2d(m, keywords) ==
    IF ~Ok(m) THEN m
    ELSE IF ~(keywords \subseteq Histogram2DParameters) THEN Raise(m, "TypeError")
    ELSE CanvasWidget_add_artist(
             m, "HISTOGRAM2D",
             Histogram2D_init(NoData, "cat10_mod_first_transparent", NoneValue, MaxBins,
                              "magma").a,
             FALSE)

\* Scatter(ax=self.axes, colormap=self.colormap) registered (lines 149-150):
\* a keyword that Scatter.__init__ does not have raises TypeError.
CanvasWidget_scatter(m, keywords) ==
    IF ~(keywords \subseteq ScatterParameters) THEN Raise(m, "TypeError")
    ELSE CanvasWidget_add_artist(
             m, "SCATTER", Scatter_init(NoData, "cat10_mod", NoneValue).a,
             FALSE)

\* CanvasWidget.__init__
CanvasWidget_init ==
    CanvasWidget_selectors(
        CanvasWidget_active_artist(
            CanvasWidget_histogram2d(
                CanvasWidget_scatter(Begin(CanvasWidget_fields), {"ax", "colormap"}),
                {"ax"}),
            "HISTOGRAM2D"))

\* An object of the package is constructed and then used: an artist, as in
\* SpecVisible, or the canvas widget.
InitCanvasWidget ==
    /\ kind = "CanvasWidget"
    /\ \E m \in {CanvasWidget_init} :
          /\ artist = m.a
          /\ constructed = Ok(m)
          /\ raised = m.ex
          /\ emitted = m.em
          /\ warned = m.wn
    /\ op = [name |-> "__init__", arg |-> "args"]
    /\ returned = NoReturn

InitCanvas == InitVisible \/ InitCanvasWidget

SpecCanvas == InitCanvas /\ [][NextVisible]_vars

\* ------------------------------------------- the log bounds on their own
\* The 'log' branch of the three colourings as a function of the values
\* coloured: one or two values, of integer or of float type, positive, zero,
\* negative or NaN, handed to Scatter's setter as colour indices or to
\* _handle_norm_method_for_continuous_colormap as a row of counts or of the
\* overlay statistic.  `artist` holds the arguments, `returned` the norm and
\* the values as the branch left them.
LogValues ==
    {Array("int", v) : v \in SeqsUpTo({Hundredths(-1), 0, Hundredths(1)}, MaxN) \ {<<>>}}
        \cup {Array("float", v) :
                 v \in SeqsUpTo({Hundredths(-1), 0, 50, Hundredths(1), NaN}, MaxN) \ {<<>>}}

LogTargets == {"color_indices", "counts", "statistic"}

\* The values as a grid of one row.
RowGrid(values) ==
    Grid(<<1, len(values)>>, [c \in Cells(<<1, len(values)>>) |-> Q(values.v[c[2] + 1])])

\* The cells of a grid of one row, in order.
RowOf(g) == [i \in 1..g.shape[2] |-> g.cell[<<0, i - 1>>]]

\* A Scatter with a continuous colormap and the method 'log'.
LogScatter ==
    [Scatter_fields(NoData, "magma", NoneValue) EXCEPT !.color_normalization_method = "log"]

\* A Histogram2D with continuous colormaps and both methods 'log'.
LogHistogram2D ==
    [Histogram2D_fields(NoData, "magma", NoneValue, 1, "magma")
         EXCEPT !.histogram_color_normalization_method = "log",
                !.overlay_color_normalization_method = "log"]

\* What the branch hands on: the norm and the values after the clamp.
LogBoundsOfIndices(r) == [norm |-> r.norm, values |-> [i \in 1..len(r.indices) |-> Q(r.indices.v[i])]]

LogBoundsOfGrid(s) == [norm |-> s.norm, values |-> RowOf(s.data)]

InitLog ==
    /\ kind = "function"
    /\ constructed = FALSE
    /\ \E values \in LogValues, target \in LogTargets :
          /\ target # "color_indices" => values.dtype = "float"
          /\ artist = [values |-> values, target |-> target]
    /\ op = [name |-> "none", arg |-> "none"]
    /\ raised = "none"
    /\ emitted = <<>>
    /\ warned = {}
    /\ returned = NoReturn

\* Lines 258-265 of Scatter's setter on the values as colour indices.
LogNormOfIndices ==
    /\ kind = "function"
    /\ ~returned.done
    /\ artist.target = "color_indices"
    /\ op' = [name |-> "Scatter.color_indices", arg |-> "log"]
    /\ returned' = Return(LogBoundsOfIndices(Scatter_norm(LogScatter, artist.values)))
    /\ UNCHANGED <<kind, constructed, artist, raised, emitted, warned>>

\* Lines 877-884 of _handle_norm_method_for_continuous_colormap on the values
\* as counts (is_overlay False) or as the overlay statistic (True).
LogNormOfGrid ==
    /\ kind = "function"
    /\ ~returned.done
    /\ artist.target # "color_indices"
    /\ op' = [name |-> "_handle_norm_method_for_continuous_colormap", arg |-> "log"]
    /\ returned' = Return(LogBoundsOfGrid(
                              _handle_norm_method_for_continuous_colormap(
                                  Begin(LogHistogram2D), artist.target = "statistic",
                                  RowGrid(artist.values))))
    /\ UNCHANGED <<kind, constructed, artist, raised, emitted, warned>>

NextLog == LogNormOfIndices \/ LogNormOfGrid

SpecLog == InitLog /\ [][NextLog]_vars

\* --------------------------------------------------------------- claims
\* The claims of the specification about Spec (C1 to C9) and SpecStat (C10).

\* C1: once data is set, after every data or color_indices assignment that
\* returned normally, color_indices has exactly one entry per point of data.
C1_LengthsAgree ==
    (/\ constructed
     /\ op.name \in {"data", "color_indices"}
     /\ raised = "none"
     /\ artist.data.tag = "array"
     /\ artist.color_indices.tag = "array")
        => len(artist.color_indices) = Len(artist.data.pts)

\* C2: assigning to color_indices an array whose length differs from
\* len(data) raises, emits nothing and leaves the stored color_indices as
\* they were.
C2_WrongLengthRejected ==
    [][(/\ op'.name = "color_indices"
        /\ artist.data.tag = "array"
        /\ op'.arg.tag = "array"
        /\ len(op'.arg) # Len(artist.data.pts))
           => (/\ raised' # "none"
               /\ emitted' = <<>>
               /\ artist'.color_indices = artist.color_indices)]_vars

\* C3: assigning None or an empty array to data raises nothing, emits
\* nothing and leaves every field of the artist (data, color_indices, the
\* histogram among them) as it was.
C3_EmptyDataIsNoOp ==
    [][(op'.name = "data" /\ op'.arg \in EmptyData)
           => (raised' = "none" /\ emitted' = <<>> /\ artist' = artist)]_vars

\* An empty assignment has acted on a Histogram2D that holds data, indices
\* and a histogram.
C3_Witness ==
    /\ constructed
    /\ kind = "Histogram2D"
    /\ op.name = "data"
    /\ op.arg \in EmptyData
    /\ artist.data.tag = "array"
    /\ artist.color_indices.tag = "array"
    /\ artist.histogram.set
    /\ raised = "none"
    /\ emitted = <<>>

\* C4: a data assignment that returns normally keeps the indices A the
\* artist held before it at every position below min(len(A), len(data)),
\* however A came to be there (constructor, or setter before the first data).
C4_DataKeepsIndices ==
    [][(/\ op'.name = "data"
        /\ op'.arg \notin EmptyData
        /\ raised' = "none"
        /\ artist.color_indices.tag = "array")
           => \A i \in 1..Min2(len(artist.color_indices), Len(op'.arg.pts)) :
                 artist'.color_indices.v[i] = artist.color_indices.v[i]]_vars

\* C5: when color_indices was just assigned an array A as long as the data
\* and a longer data set is assigned next, every entry of the resulting
\* color_indices from position len(A) on is 0.
C5_GrowthFillsZero ==
    [][(/\ op.name = "color_indices"
        /\ raised = "none"
        /\ op.arg.tag = "array"
        /\ artist.data.tag = "array"
        /\ len(op.arg) = Len(artist.data.pts)
        /\ op'.name = "data"
        /\ raised' = "none"
        /\ Len(op'.arg.pts) > len(op.arg))
           => \A i \in (len(op.arg) + 1)..Len(op'.arg.pts) :
                 artist'.color_indices.v[i] = 0]_vars

\* C6: indices_in_patches_above_threshold(-1) returns every point index
\* 0..N-1 exactly once.
C6_AllIndicesOnce ==
    (/\ op.name = "indices_in_patches_above_threshold"
     /\ op.arg = -1
     /\ returned.done)
        => /\ Len(returned.value) = Len(artist.data.pts)
           /\ Range(returned.value) = 0..(Len(artist.data.pts) - 1)

\* C7: a point index is returned for threshold t exactly when the count of
\* the bin the digitize-and-clip assignment gives the point is above t.
C7_PathsAgree ==
    (op.name = "indices_in_patches_above_threshold" /\ returned.done)
        => LET h == artist.histogram
               x_bin == bin_indices(Column(artist.data.pts, 1), h.x_edges)
               y_bin == bin_indices(Column(artist.data.pts, 2), h.y_edges)
           IN  \A i \in 1..Len(artist.data.pts) :
                  ((i - 1) \in Range(returned.value))
                      <=> QLess(Q(Hundredths(op.arg)),
                                h.counts.cell[<<x_bin[i], y_bin[i]>>])

\* A data or bins assignment on a Histogram2D has just recomputed the
\* histogram and returned normally.
C8_Assigned ==
    /\ constructed
    /\ kind = "Histogram2D"
    /\ raised = "none"
    /\ artist.histogram.set
    /\ (op.name = "bins" \/ (op.name = "data" /\ op.arg \notin EmptyData))

\* The counts are (bins, bins), both axes have bins + 1 strictly increasing
\* edges, and every point is given bin indices within 0..bins-1.
C8_Geometry ==
    LET h == artist.histogram
        Increasing(e) == /\ Len(e.num) = artist.bins + 1
                         /\ \A i \in 1..artist.bins : e.num[i] < e.num[i + 1]
        InRange(b) == \A i \in DOMAIN b : 0 <= b[i] /\ b[i] <= artist.bins - 1
    IN  /\ h.counts.shape = <<artist.bins, artist.bins>>
        /\ Increasing(h.x_edges)
        /\ Increasing(h.y_edges)
        /\ InRange(bin_indices(Column(artist.data.pts, 1), h.x_edges))
        /\ InRange(bin_indices(Column(artist.data.pts, 2), h.y_edges))

\* The points with the greatest coordinate on axis k and the bins the
\* colouring gives them.
C8_BinsOfMax(k) ==
    LET xs == Column(artist.data.pts, k)
        edges == IF k = 1 THEN artist.histogram.x_edges ELSE artist.histogram.y_edges
        b == bin_indices(xs, edges)
    IN  {b[i] : i \in {j \in DOMAIN xs : xs[j] = SetMax(Range(xs))}}

C8_Distinct(k) == Cardinality(Range(Column(artist.data.pts, k)))

\* C8 as stated: after every successful data or bins assignment the
\* geometry holds and a point with the greatest x (or y) has bin bins-1 on
\* that axis.
C8_MaxInLastBin ==
    C8_Assigned
        => /\ C8_Geometry
           /\ \A k \in {1, 2} : C8_BinsOfMax(k) = {artist.bins - 1}

\* C8 amended: the same, the last bin being claimed for an axis on which the
\* data has two distinct values at least; when all values on an axis are
\* equal the points have the middle bin, floor(bins / 2).
C8_MaxInLastBinOfSpread ==
    C8_Assigned
        => /\ C8_Geometry
           /\ \A k \in {1, 2} :
                 C8_BinsOfMax(k) = {IF C8_Distinct(k) >= 2 THEN artist.bins - 1
                                    ELSE artist.bins \div 2}

\* A successful assignment with more than two bins has put the greatest of
\* two distinct x values in the last bin.
C8_Witness ==
    /\ C8_Assigned
    /\ artist.bins > 2
    /\ C8_Distinct(1) >= 2
    /\ C8_BinsOfMax(1) = {artist.bins - 1}

\* C9: the overlay statistic grid the color_indices setter computed last
\* (the bins have not changed since) has shape (bins, bins), and the overlay
\* RGBA image made from it has shape (bins, bins, 4).
C9_OverlayGridShape ==
    (constructed /\ kind = "Histogram2D" /\ artist.statistic_histogram # NoGrid)
        => /\ artist.statistic_histogram.shape = <<artist.bins, artist.bins>>
           /\ artist.overlay_histogram_image.exists
                => artist.overlay_histogram_rgba.shape = <<artist.bins, artist.bins, 4>>

\* The points of cell c: every k with (x_indices[k], y_indices[k]) = c.
C10_MembersOf(c) ==
    {k \in DOMAIN artist.features :
        artist.x_indices[k] = c[1] /\ artist.y_indices[k] = c[2]}

\* q is the statistic of the values v[k], k in K, none of them NaN.
C10_IsStatistic(q, statistic, v, K) ==
    LET m == Cardinality(K)
        total == SumOver(v, K)
        below == Cardinality({k \in K : v[k] * q.d < q.n})
        above == Cardinality({k \in K : v[k] * q.d > q.n})
    IN  IF statistic = "sum" THEN q.d = 1 /\ q.n = total
        ELSE IF statistic = "mean" THEN q.d > 0 /\ q.n * m = total * q.d
        ELSE /\ q.d > 0
             /\ 2 * below <= m
             /\ 2 * above <= m
             /\ \E i, j \in K :
                  /\ v[i] <= v[j]
                  /\ 2 * q.n = (v[i] + v[j]) * q.d
                  /\ ~\E k \in K : v[i] < v[k] /\ v[k] < v[j]

C11_Drawn(object) == object.exists /\ object.on_axes /\ object.visible

\* The rendered objects of the artist that the canvas draws.
C11_Shown ==
    IF kind = "Scatter" THEN C11_Drawn(artist.scatter)
    ELSE C11_Drawn(artist.histogram_image) \/ C11_Drawn(artist.overlay_histogram_image)

\* C11: while `visible` reads False, none of the artist's rendered objects
\* (the scatter collection, the base histogram image, the overlay image) is
\* drawn, whatever was assigned since `visible` was set to False.
C11_HiddenStaysHidden ==
    (constructed /\ artist.visible = FALSE) => ~C11_Shown

\* C12: after any setter call that returns normally, a categorical overlay
\* colormap (for Histogram2D also a categorical histogram colormap) goes with
\* a normalization-method property that reads 'linear'.
C12_CategoricalIsLinear ==
    (constructed /\ op.name # "__init__" /\ raised = "none") =>
        IF kind = "Scatter"
        THEN artist.overlay_colormap.categorical
                 => artist.color_normalization_method = "linear"
        ELSE /\ artist.overlay_colormap.categorical
                    => artist.overlay_color_normalization_method = "linear"
             /\ artist.histogram_colormap.categorical
                    => artist.histogram_color_normalization_method = "linear"

\* The case of C13: the last call assigned color_indices, a scalar or an
\* array of integer type with every entry in [0, K), on a Scatter that holds
\* data and has a categorical overlay colormap of K colours.
C13_Case ==
    /\ kind = "Scatter"
    /\ constructed
    /\ op.name = "color_indices"
    /\ artist.data.tag = "array"
    /\ artist.overlay_colormap.categorical
    /\ op.arg.dtype = "int"
    /\ \A i \in DOMAIN op.arg.v :
          /\ op.arg.v[i] >= 0
          /\ op.arg.v[i] < Hundredths(artist.overlay_colormap.N)

C14_ObserversSeeNewState ==
    (constructed /\ op.name = "data") =>
        \A k \in DOMAIN emitted :
            emitted[k].signal = "data_changed"
                => (emitted[k].seen.lengths_agree /\ emitted[k].seen.histogram_of_data)

\* The fields of the artist that the program holds (statistic_histogram and
\* histogram_of are kept by the model only).
C15_Fields(a) ==
    IF kind = "Histogram2D"
    THEN [a EXCEPT !.statistic_histogram = NoGrid,
                   !.histogram_of = [data |-> NoData, bins |-> 0]]
    ELSE a

\* C15: a setter that raises leaves data, color_indices, the normalization
\* methods, the colormaps and the rendered images as they were before the
\* call, and an assignment of one colour index per point that follows a
\* raising call succeeds.
C15_RaiseLeavesArtist ==
    [][constructed =>
          /\ raised' # "none" => C15_Fields(artist') = C15_Fields(artist)
          /\ (/\ raised # "none"
              /\ op'.name = "color_indices"
              /\ artist.data.tag = "array"
              /\ op'.arg.tag = "array"
              /\ len(op'.arg) = Len(artist.data.pts))
                 => raised' = "none"]_vars

\* C16: an assignment of color_indices on Histogram2D that raises leaves the
\* overlay image that was on the axes before the call in place.
C16_FailureKeepsOverlay ==
    [][(/\ kind = "Histogram2D"
        /\ constructed
        /\ op'.name = "color_indices"
        /\ raised' # "none"
        /\ artist.overlay_histogram_image.exists
        /\ artist.overlay_histogram_image.on_axes)
          => artist'.overlay_histogram_image = artist.overlay_histogram_image]_vars

\* The setters of Histogram2D.
C17_Setters ==
    {"data", "bins", "color_indices", "overlay_colormap", "histogram_colormap",
     "histogram_color_normalization_method", "overlay_color_normalization_method",
     "overlay_opacity", "overlay_visible", "visible"}

\* A valid value of color_indices: a scalar, or one index per point.
C17_ValidIndices ==
    \/ op.arg.tag = "scalar"
    \/ op.arg.tag = "array" /\ artist.data.tag = "array"
                            /\ len(op.arg) = Len(artist.data.pts)

\* C17: a setter of Histogram2D called with a valid value returns without
\* raising in every state, also on an artist constructed without data.
C17_SettersTotal ==
    (/\ kind = "Histogram2D"
     /\ constructed
     /\ op.name \in C17_Setters
     /\ op.name = "color_indices" => C17_ValidIndices)
        => raised = "none"

\* C18: after a scalar s is assigned to color_indices on an artist that holds
\* N points, color_indices is an array of N entries equal to s, and the call
\* has emitted color_indices_changed once, with that array as its payload.
C18_ScalarBroadcast ==
    (/\ constructed
     /\ op.name = "color_indices"
     /\ op.arg.tag = "scalar"
     /\ artist.data.tag = "array")
        => /\ artist.color_indices = full(Len(artist.data.pts), op.arg)
           /\ Len(emitted) = 1
           /\ emitted[1].signal = "color_indices_changed"
           /\ emitted[1].payload = artist.color_indices

\* C19: whenever a Histogram2D holds a histogram, its counts are the numbers
\* of points of the data in each bin, whatever the histogram colormap and
\* normalization method are.
C19_CountsAreTrue ==
    (kind = "Histogram2D" /\ constructed /\ artist.histogram.set)
        => artist.histogram.counts = histogram2d(artist.data.pts, artist.bins).counts

\* C20: converting the counts of the base histogram never issues the warning
\* 'Color indices must be integers', also under a categorical histogram
\* colormap: a call on a Histogram2D issues that warning only for the
\* overlay, that is, only when the overlay colormap is categorical and the
\* colour indices are not of integer type.
C20_CountsNeverWarn ==
    (/\ kind = "Histogram2D"
     /\ constructed
     /\ IntegersWarning \in warned)
        => (artist.overlay_colormap.categorical /\ artist.color_indices.dtype # "int")

\* The values among which a bound is taken: the ones that are not NaN.
C21_Numbers(values) == {values[i] : i \in {j \in DOMAIN values : ~isnan(values[j])}}

\* C21: the 'log' branch hands the normalizer bounds with 0 < vmin <= vmax,
\* vmax being the largest of the values after the clamp, for every array
\* that holds a number, also when none of its numbers is positive.
C21_LogBoundsOrdered ==
    (kind = "function" /\ returned.done /\ Numbers(artist.values) # {}) =>
        /\ QLess(Q(0), returned.value.norm.vmin)
        /\ QLeq(returned.value.norm.vmin, returned.value.norm.vmax)
        /\ QEq(returned.value.norm.vmax, QMaxOf(C21_Numbers(returned.value.values)))

\* The setters of Histogram2D that change how the data is drawn.
C22_Redrawing ==
    {"overlay_opacity", "overlay_interpolation", "histogram_interpolation",
     "histogram_colormap", "histogram_color_normalization_method", "bins"}

\* C22: on a Histogram2D that holds data, an assignment of overlay_opacity,
\* of an interpolation, of histogram_colormap, of the histogram
\* normalization method or of bins emits no data_changed.
C22_RedrawEmitsNoDataChanged ==
    (/\ kind = "Histogram2D"
     /\ constructed
     /\ op.name \in C22_Redrawing
     /\ artist.data.tag = "array")
        => \A k \in DOMAIN emitted : emitted[k].signal # "data_changed"

\* C23: a constructor given non-empty data of N points (and no colour
\* indices) returns normally, and the artist holds that data and N colour
\* indices.
C23_ConstructedWithData ==
    (op.name = "__init__" /\ artist.data.tag = "array") =>
        /\ raised = "none"
        /\ constructed
        /\ artist.color_indices.tag = "array"
        /\ len(artist.color_indices) = Len(artist.data.pts)

====
